---- MODULE Spec2Model ----
(***************************************************************************)
(* AdventOfCode 2022, rust/2022/day07: the tree builder                    *)
(* (command_text_parser::parse), the size aggregator (SizableDiskItem) and *)
(* the two queries (sum_directory_sizes_of, directory_size_to_free).       *)
(*                                                                         *)
(* A line of the transcript is a sequence of one-character strings, so     *)
(* that starts_with, split(' ') and parse::<usize> are modelled by what    *)
(* they do on the characters.  The heap of Rc<RefCell<DiskItem>> cells is  *)
(* a function from cell ids to cells; a cell is released when no strong    *)
(* reference (root_directory, current_directory, a children map) reaches   *)
(* it any more, and a Weak parent reference to a released cell fails to    *)
(* upgrade.                                                                *)
(***************************************************************************)
EXTENDS Integers, Sequences, FiniteSets, TLC

(***************************************************************************)
(* Bounds of the model.                                                    *)
(***************************************************************************)
\* cells other than the root that may be allocated at the same time
MaxNodes == 3

(***************************************************************************)
(* Program constants.                                                      *)
(***************************************************************************)
\* 30_000_000, the space to have free
RequiredFree == 30000000
\* 70_000_000, the capacity of the disk
Capacity == 70000000
\* the threshold of sum_directory_sizes_of_100_000
MaxSize100000 == 100000

(***************************************************************************)
(* Characters, tokens and lines.                                           *)
(***************************************************************************)
Digits == <<"0", "1", "2", "3", "4", "5", "6", "7", "8", "9">>

IsDigit(c) == \E i \in 1..10 : Digits[i] = c

DigitValue(c) == (CHOOSE i \in 1..10 : Digits[i] = c) - 1

\* str::starts_with
StartsWith(s, prefix) ==
    /\ Len(s) >= Len(prefix)
    /\ SubSeq(s, 1, Len(prefix)) = prefix

\* str::split(' ') collected: the pieces between single spaces, empty pieces
\* included; the empty string gives one empty piece
RECURSIVE Split(_)
Split(s) ==
    IF \A i \in 1..Len(s) : s[i] # " "
    THEN <<s>>
    ELSE LET i == CHOOSE k \in 1..Len(s) :
                      /\ s[k] = " "
                      /\ \A j \in 1..(k - 1) : s[j] # " "
         IN  <<SubSeq(s, 1, i - 1)>> \o Split(SubSeq(s, i + 1, Len(s)))

\* the value Option::None of an Option<&str>
NoToken == <<"None">>

\* Iterator::nth (0-based) on the pieces of a split
Nth(tokens, n) == IF Len(tokens) > n THEN tokens[n + 1] ELSE NoToken

\* the value Err(_) of str::parse::<usize>
ParseError == -1

RECURSIVE DigitsValue(_)
DigitsValue(s) ==
    IF Len(s) = 0 THEN 0
    ELSE 10 * DigitsValue(SubSeq(s, 1, Len(s) - 1)) + DigitValue(s[Len(s)])

\* str::parse::<usize>: an optional '+', then one or more decimal digits
\* (the lines of this model have at most 8 digits, far below usize::MAX)
ParseUsize(s) ==
    LET body == IF Len(s) > 0 /\ s[1] = "+" THEN SubSeq(s, 2, Len(s)) ELSE s
    IN  IF Len(body) = 0 \/ \E i \in 1..Len(body) : ~IsDigit(body[i])
        THEN ParseError
        ELSE DigitsValue(body)

(***************************************************************************)
(* The transcript lines the model feeds to parse, and the string literals  *)
(* of lib.rs.                                                              *)
(***************************************************************************)
\* "$ cd /"
LineCdRoot == <<"$", " ", "c", "d", " ", "/">>

\* "$ cd .."
LineCdUp == <<"$", " ", "c", "d", " ", ".", ".">>

\* "$ cd a"
LineCdA == <<"$", " ", "c", "d", " ", "a">>

\* "$ ls"
LineLs == <<"$", " ", "l", "s">>

\* "dir a"
LineDirA == <<"d", "i", "r", " ", "a">>

\* "7 a"
LineFile7A == <<"7", " ", "a">>

\* "40000000 b"
LineFile40MB == <<"4", "0", "0", "0", "0", "0", "0", "0", " ", "b">>

\* "40000000 a"
LineFile40MA == <<"4", "0", "0", "0", "0", "0", "0", "0", " ", "a">>

\* ""
LineEmpty == <<>>

\* "$ cd"
LineCdNoName == <<"$", " ", "c", "d">>

\* "$ lsx"
LineLsx == <<"$", " ", "l", "s", "x">>

\* "$ cdx a"
LineCdxA == <<"$", " ", "c", "d", "x", " ", "a">>

\* "dir a b"
LineDirAB == <<"d", "i", "r", " ", "a", " ", "b">>

\* "x a"
LineBadSize == <<"x", " ", "a">>

\* "$ pwd"
LinePwd == <<"$", " ", "p", "w", "d">>

Lines ==
    {LineCdRoot,
     LineCdUp,
     LineCdA,
     LineLs,
     LineDirA,
     LineFile7A,
     LineFile40MB,
     LineFile40MA,
     LineEmpty,
     LineCdNoName,
     LineLsx,
     LineCdxA,
     LineDirAB,
     LineBadSize,
     LinePwd}

\* "$ cd"
PrefixCd == <<"$", " ", "c", "d">>

\* "$ ls"
PrefixLs == <<"$", " ", "l", "s">>

\* "dir"
TokenDir == <<"d", "i", "r">>

\* "/"
TokenRoot == <<"/">>

\* ".."
TokenUp == <<".", ".">>

\* "$"
TokenDollar == <<"$">>

\* "cd"
TokenCd == <<"c", "d">>

\* "ls"
TokenLs == <<"l", "s">>

(***************************************************************************)
(* The heap of Rc<RefCell<DiskItem>> cells.                                *)
(***************************************************************************)
\* the cell of root_directory (lib.rs:148), allocated first
root_directory == 0

Ids == 0..MaxNodes

\* Option::None of an Option<DiskItemType> or Option<WeakDiskItemType>
None == -1

\* the outcome "the thread panicked" of an operation returning a cell
Panic == -2

\* a cell that is not allocated
Released == [kind |-> "Released", parent |-> None, children |-> {}, size |-> 0]

\* Directory::new
Directory_new(parent) ==
    [kind |-> "Directory", parent |-> parent, children |-> {}, size |-> 0]

\* File::new
File_new(file_size) ==
    [kind |-> "File", parent |-> None, children |-> {}, size |-> file_size]

\* the cells the children map of cell d owns
ChildItems(h, d) == {c.item : c \in h[d].children}

\* the cells reachable through strong references from the cells in frontier
RECURSIVE Reachable(_, _, _)
Reachable(h, frontier, seen) ==
    IF frontier \subseteq seen THEN seen
    ELSE LET now == seen \cup frontier
         IN  Reachable(h, UNION {ChildItems(h, d) : d \in frontier} \ now, now)

\* Rc drop: every cell no strong reference reaches is released
Drop(h, owners) ==
    LET live == Reachable(h, owners \ {None}, {})
    IN  [i \in Ids |-> IF i \in live THEN h[i] ELSE Released]

\* the ids Rc::new may use: not allocated, and no Weak still points there
FreeIds(h) ==
    {i \in Ids : /\ h[i].kind = "Released"
                 /\ \A j \in Ids : h[j].kind = "Released" \/ h[j].parent # i}

NewId(h) == CHOOSE i \in FreeIds(h) : \A j \in FreeIds(h) : i <= j

\* Directory::add_child: HashMap::insert of a new cell under name
add_child(h, d, name, item) ==
    LET id == NewId(h)
    IN  [h EXCEPT ![id] = item,
                  ![d].children =
                      {c \in @ : c.name # name} \cup {[name |-> name, item |-> id]}]

\* Directory::get_child: HashMap::get
get_child(h, d, name) ==
    IF \E c \in h[d].children : c.name = name
    THEN (CHOOSE c \in h[d].children : c.name = name).item
    ELSE None

\* Directory::get_parent: the upgrade of the Weak parent, which must succeed
get_parent(h, d) ==
    IF h[d].parent = None THEN None
    ELSE IF h[h[d].parent].kind = "Released" THEN Panic
    ELSE h[d].parent

\* Directory::directories: the children that are directories
directories(h, d) == {i \in ChildItems(h, d) : h[i].kind = "Directory"}

\* size that adds up the files a directory holds itself and leaves out what
\* its directories hold
RECURSIVE size_of_own_files(_, _)
size_of_own_files(h, i) ==
    IF h[i].kind = "Directory"
    THEN IF {f \in ChildItems(h, i) : h[f].kind = "File"} = {} THEN 0
         ELSE LET f == CHOOSE x \in ChildItems(h, i) : h[x].kind = "File"
              IN  h[f].size
                      + size_of_own_files([h EXCEPT ![i].children =
                                               {c \in @ : c.item # f}], i)
    ELSE h[i].size

\* SizableDiskItem::size of a DiskItem, a Directory or a File
RECURSIVE size(_, _), SumOfSizes(_, _)
size(h, i) ==
    IF h[i].kind = "Directory" THEN SumOfSizes(h, ChildItems(h, i))
    ELSE h[i].size

\* Iterator::sum of size() over a set of cells
SumOfSizes(h, items) ==
    IF items = {} THEN 0
    ELSE LET i == CHOOSE x \in items : TRUE
         IN  size(h, i) + SumOfSizes(h, items \ {i})

(***************************************************************************)
(* command_text_parser: the operations on the cursor and on the tree.      *)
(* An operation that returns a cell returns its id, None, or Panic; an     *)
(* operation that changes the tree returns the new heap and whether it     *)
(* panicked.                                                               *)
(***************************************************************************)
\* get_root_directory
get_root_directory(root) == root

\* get_parent_directory that leaves the cursor where it is when the directory
\* has no parent
get_parent_directory_or_stay(h, current) ==
    IF current = None THEN Panic
    ELSE IF h[current].kind = "Directory"
         THEN IF get_parent(h, current) = None THEN current
              ELSE get_parent(h, current)
         ELSE None

\* get_parent_directory: unwrap of the cursor, then the parent of a Directory,
\* which must exist; None when the cursor is a File
get_parent_directory(h, current) ==
    IF current = None THEN Panic
    ELSE IF h[current].kind = "Directory"
         THEN IF get_parent(h, current) = None THEN Panic
              ELSE get_parent(h, current)
         ELSE None

\* get_directory_by_name: unwrap of the cursor, then the child of a Directory
\* under that name, which must exist; None when the cursor is a File
get_directory_by_name(h, current, directory_name) ==
    IF current = None THEN Panic
    ELSE IF h[current].kind = "Directory"
         THEN IF get_child(h, current, directory_name) = None THEN Panic
              ELSE get_child(h, current, directory_name)
         ELSE None

\* add_directory that creates the Directory without a parent, as
\* Directory::new(None)
add_directory_without_parent(h, current, directory_name) ==
    IF current = None THEN [panic |-> TRUE, heap |-> h]
    ELSE IF h[current].kind = "Directory"
         THEN [panic |-> FALSE,
               heap |-> add_child(h, current, directory_name, Directory_new(None))]
         ELSE [panic |-> FALSE, heap |-> h]

\* add_directory: unwrap of the cursor, then add_child of a new Directory
\* whose parent is the cursor; nothing when the cursor is a File
add_directory(h, current, directory_name) ==
    IF current = None THEN [panic |-> TRUE, heap |-> h]
    ELSE IF h[current].kind = "Directory"
         THEN [panic |-> FALSE,
               heap |-> add_child(h, current, directory_name, Directory_new(current))]
         ELSE [panic |-> FALSE, heap |-> h]

\* add_file that inserts into root_directory in the place of the cursor
add_file_at_root(h, current, file_name, file_size) ==
    IF current = None THEN [panic |-> TRUE, heap |-> h]
    ELSE IF h[current].kind = "Directory"
         THEN IF ParseUsize(file_size) = ParseError
              THEN [panic |-> TRUE, heap |-> h]
              ELSE [panic |-> FALSE,
                    heap |-> add_child(h, root_directory, file_name,
                                       File_new(ParseUsize(file_size)))]
         ELSE [panic |-> FALSE, heap |-> h]

\* add_file: unwrap of the cursor, then the size is parsed and add_child of a
\* new File; nothing (and no parsing) when the cursor is a File
add_file(h, current, file_name, file_size) ==
    IF current = None THEN [panic |-> TRUE, heap |-> h]
    ELSE IF h[current].kind = "Directory"
         THEN IF ParseUsize(file_size) = ParseError
              THEN [panic |-> TRUE, heap |-> h]
              ELSE [panic |-> FALSE,
                    heap |-> add_child(h, current, file_name,
                                       File_new(ParseUsize(file_size)))]
         ELSE [panic |-> FALSE, heap |-> h]

\* the `$ cd` branch without the "/" arm: / is looked up like any name
change_directory_without_root(h, current, l) ==
    LET directory_name == Nth(Split(l), 2)
    IN  IF directory_name = NoToken THEN Panic
        ELSE IF directory_name = TokenUp THEN get_parent_directory(h, current)
        ELSE get_directory_by_name(h, current, directory_name)

\* the `$ cd` branch of the loop of parse: the new cursor
change_directory(h, current, l) ==
    LET directory_name == Nth(Split(l), 2)
    IN  IF directory_name = NoToken THEN Panic
        ELSE IF directory_name = TokenRoot THEN get_root_directory(root_directory)
        ELSE IF directory_name = TokenUp THEN get_parent_directory(h, current)
        ELSE get_directory_by_name(h, current, directory_name)

\* the listing branch of the loop of parse: the new heap
add_listing(h, current, l) ==
    LET listing == Split(l)
    IN  IF Nth(listing, 1) = NoToken THEN [panic |-> TRUE, heap |-> h]
        ELSE IF Nth(listing, 0) = TokenDir
             THEN add_directory(h, current, Nth(listing, 1))
             ELSE add_file(h, current, Nth(listing, 1), Nth(listing, 0))

\* the loop body without the `$ ls` test: every line that is no `$ cd` is
\* taken for a listing
parse_line_without_ls(h, current, l) ==
    IF StartsWith(l, PrefixCd)
    THEN LET next == change_directory(h, current, l)
         IN  [panic |-> next = Panic, heap |-> h,
              current_directory |-> IF next = Panic THEN current ELSE next]
    ELSE LET r == add_listing(h, current, l)
         IN  [panic |-> r.panic, heap |-> r.heap, current_directory |-> current]

\* one iteration of the loop of parse on line l
parse_line(h, current, l) ==
    IF StartsWith(l, PrefixCd)
    THEN LET next == change_directory(h, current, l)
         IN  [panic |-> next = Panic, heap |-> h,
              current_directory |-> IF next = Panic THEN current ELSE next]
    ELSE IF ~StartsWith(l, PrefixLs)
         THEN LET r == add_listing(h, current, l)
              IN  [panic |-> r.panic, heap |-> r.heap, current_directory |-> current]
         ELSE [panic |-> FALSE, heap |-> h, current_directory |-> current]

\* line l makes the loop allocate a cell
Allocates(h, current, l) ==
    /\ ~StartsWith(l, PrefixCd)
    /\ ~StartsWith(l, PrefixLs)
    /\ Nth(Split(l), 1) # NoToken
    /\ current # None
    /\ h[current].kind = "Directory"
    /\ Nth(Split(l), 0) # TokenDir => ParseUsize(Nth(Split(l), 0)) # ParseError

(***************************************************************************)
(* The queries.                                                            *)
(***************************************************************************)
Min2(x, y) == IF x <= y THEN x ELSE y

MinOf(S) == CHOOSE x \in S : \A y \in S : x <= y

MaxOf(S) == CHOOSE x \in S : \A y \in S : x >= y

\* sum_directory_sizes_of with `<` in the place of `<=`
RECURSIVE sum_directory_sizes_of_below(_, _, _), SumOverDirectoriesBelow(_, _, _)
sum_directory_sizes_of_below(max_size, h, directory) ==
    IF h[directory].kind = "Directory"
    THEN LET current_directory_size ==
                 IF size(h, directory) < max_size THEN size(h, directory) ELSE 0
         IN  SumOverDirectoriesBelow(max_size, h, directories(h, directory))
                 + current_directory_size
    ELSE 0

SumOverDirectoriesBelow(max_size, h, items) ==
    IF items = {} THEN 0
    ELSE LET i == CHOOSE x \in items : TRUE
         IN  sum_directory_sizes_of_below(max_size, h, i)
                 + SumOverDirectoriesBelow(max_size, h, items \ {i})

\* sum_directory_sizes_of walking all children and counting a file by its size
RECURSIVE sum_directory_sizes_of_with_files(_, _, _), SumOverChildren(_, _, _)
sum_directory_sizes_of_with_files(max_size, h, directory) ==
    IF h[directory].kind = "Directory"
    THEN LET current_directory_size ==
                 IF size(h, directory) <= max_size THEN size(h, directory) ELSE 0
         IN  SumOverChildren(max_size, h, ChildItems(h, directory))
                 + current_directory_size
    ELSE IF h[directory].size <= max_size THEN h[directory].size ELSE 0

SumOverChildren(max_size, h, items) ==
    IF items = {} THEN 0
    ELSE LET i == CHOOSE x \in items : TRUE
         IN  sum_directory_sizes_of_with_files(max_size, h, i)
                 + SumOverChildren(max_size, h, items \ {i})

\* sum_directory_sizes_of
RECURSIVE sum_directory_sizes_of(_, _, _), SumOverDirectories(_, _, _)
sum_directory_sizes_of(max_size, h, directory) ==
    IF h[directory].kind = "Directory"
    THEN LET current_directory_size ==
                 IF size(h, directory) <= max_size THEN size(h, directory) ELSE 0
         IN  SumOverDirectories(max_size, h, directories(h, directory))
                 + current_directory_size
    ELSE 0

\* Iterator::sum of sum_directory_sizes_of over the directories() of a cell
SumOverDirectories(max_size, h, items) ==
    IF items = {} THEN 0
    ELSE LET i == CHOOSE x \in items : TRUE
         IN  sum_directory_sizes_of(max_size, h, i)
                 + SumOverDirectories(max_size, h, items \ {i})

\* directory_size_to_free with `>` in the place of `>=`
RECURSIVE directory_size_to_free_above(_, _, _)
directory_size_to_free_above(min_size, h, directory) ==
    IF h[directory].kind = "Directory"
    THEN LET current_directory_size == size(h, directory)
             found == {directory_size_to_free_above(min_size, h, d) :
                           d \in directories(h, directory)}
             positive == {s \in found : s > 0}
             min == IF positive = {} THEN 0 ELSE MinOf(positive)
         IN  IF current_directory_size > min_size /\ min > 0
             THEN Min2(current_directory_size, min)
             ELSE IF current_directory_size > min_size
                  THEN current_directory_size
                  ELSE 0
    ELSE 0

\* directory_size_to_free
RECURSIVE directory_size_to_free(_, _, _)
directory_size_to_free(min_size, h, directory) ==
    IF h[directory].kind = "Directory"
    THEN LET current_directory_size == size(h, directory)
             found == {directory_size_to_free(min_size, h, d) :
                           d \in directories(h, directory)}
             positive == {s \in found : s > 0}
             min == IF positive = {} THEN 0 ELSE MinOf(positive)
         IN  IF current_directory_size >= min_size /\ min > 0
             THEN Min2(current_directory_size, min)
             ELSE IF current_directory_size >= min_size
                  THEN current_directory_size
                  ELSE 0
    ELSE 0

\* directory_size_to_free_30_000_000 with the parentheses of min_size left out
directory_size_to_free_30_000_000_flat(h, directory) ==
    LET min_size == RequiredFree - Capacity - size(h, directory)
    IN  IF min_size >= 0
        THEN directory_size_to_free(min_size, h, directory)
        ELSE -1

\* directory_size_to_free_30_000_000, on the tree parse returned
directory_size_to_free_30_000_000(h, directory) ==
    LET min_size == RequiredFree - (Capacity - size(h, directory))
    IN  IF min_size >= 0
        THEN directory_size_to_free(min_size, h, directory)
        ELSE -1

(***************************************************************************)
(* The traversals with the iteration order of the children maps made       *)
(* explicit. HashMap::values yields the children in an order the map       *)
(* chooses; an order is a permutation of the cells, and the children of a  *)
(* directory are visited as that permutation ranks them. Cells are         *)
(* allocated in insertion order, so the permutations cover the insertion   *)
(* orders as well.                                                         *)
(***************************************************************************)
Orders ==
    {o \in [1..(MaxNodes + 1) -> Ids] :
        \A i, j \in 1..(MaxNodes + 1) : i # j => o[i] # o[j]}

\* children.values(), in the order of the map
values(order, h, d) == SelectSeq(order, LAMBDA i : i \in ChildItems(h, d))

\* Directory::directories() and DirectoryIterator::next: the values that are
\* directories, in the order of the map
directories_in_order(order, h, d) ==
    SelectSeq(values(order, h, d), LAMBDA i : h[i].kind = "Directory")

\* size of a Directory that takes the first value for the sum of all of them
RECURSIVE size_of_first_in_order(_, _, _)
size_of_first_in_order(order, h, i) ==
    IF h[i].kind = "Directory"
    THEN IF values(order, h, i) = <<>> THEN 0
         ELSE size_of_first_in_order(order, h, Head(values(order, h, i)))
    ELSE h[i].size

\* SizableDiskItem::size, the values visited in the order of the map
RECURSIVE size_in_order(_, _, _), SumOfSizesInOrder(_, _, _)
size_in_order(order, h, i) ==
    IF h[i].kind = "Directory"
    THEN SumOfSizesInOrder(order, h, values(order, h, i))
    ELSE h[i].size

\* Iterator::sum of size() over the values, front to back
SumOfSizesInOrder(order, h, items) ==
    IF items = <<>> THEN 0
    ELSE size_in_order(order, h, Head(items))
             + SumOfSizesInOrder(order, h, Tail(items))

\* sum_directory_sizes_of, the directories visited in the order of the map
RECURSIVE sum_directory_sizes_of_in_order(_, _, _, _),
          SumOverDirectoriesInOrder(_, _, _, _)
sum_directory_sizes_of_in_order(order, max_size, h, directory) ==
    IF h[directory].kind = "Directory"
    THEN LET current_directory_size ==
                 IF size_in_order(order, h, directory) <= max_size
                 THEN size_in_order(order, h, directory)
                 ELSE 0
         IN  SumOverDirectoriesInOrder(order, max_size, h,
                                       directories_in_order(order, h, directory))
                 + current_directory_size
    ELSE 0

SumOverDirectoriesInOrder(order, max_size, h, items) ==
    IF items = <<>> THEN 0
    ELSE sum_directory_sizes_of_in_order(order, max_size, h, Head(items))
             + SumOverDirectoriesInOrder(order, max_size, h, Tail(items))

\* directory_size_to_free, the directories visited in the order of the map:
\* map, filter(size > 0), min, unwrap_or(0)
RECURSIVE directory_size_to_free_in_order(_, _, _, _),
          MinOverDirectoriesInOrder(_, _, _, _)
directory_size_to_free_in_order(order, min_size, h, directory) ==
    IF h[directory].kind = "Directory"
    THEN LET current_directory_size == size_in_order(order, h, directory)
             min == MinOverDirectoriesInOrder(order, min_size, h,
                        directories_in_order(order, h, directory))
         IN  IF current_directory_size >= min_size /\ min > 0
             THEN Min2(current_directory_size, min)
             ELSE IF current_directory_size >= min_size
                  THEN current_directory_size
                  ELSE 0
    ELSE 0

\* the least of the positive results over the items, 0 when there is none
MinOverDirectoriesInOrder(order, min_size, h, items) ==
    IF items = <<>> THEN 0
    ELSE LET first == directory_size_to_free_in_order(order, min_size, h,
                                                      Head(items))
             rest == MinOverDirectoriesInOrder(order, min_size, h, Tail(items))
         IN  IF first > 0 /\ rest > 0 THEN Min2(first, rest)
             ELSE IF first > 0 THEN first
             ELSE rest

\* directory_size_to_free_30_000_000 on a tree, in the order of the map
directory_size_to_free_30_000_000_in_order(order, h, directory) ==
    LET min_size == RequiredFree - (Capacity - size_in_order(order, h, directory))
    IN  IF min_size >= 0
        THEN directory_size_to_free_in_order(order, min_size, h, directory)
        ELSE -1

(***************************************************************************)
(* The state machine: parse reads the transcript line by line, returns     *)
(* the root at the end of the input, and the queries run on the returned   *)
(* tree.                                                                   *)
(***************************************************************************)
VARIABLES
    heap,               \* the cells
    current_directory,  \* the cursor of parse: a cell, or None
    line,               \* the line of the last iteration of the loop
    pc,                 \* "parsing", "panicked" or "returned"
    max_size,           \* the threshold of the last sum_directory_sizes_of
    sum_result,         \* what the last sum_directory_sizes_of returned
    free_result,        \* what directory_size_to_free_30_000_000 returned
    tree                \* the cell parse returned, None before it returns

\* day06, get_start_of_packet_position
VARIABLES
    characters,         \* the argument characters, as a sequence
    window_size,        \* the argument window_size
    window,             \* the VecDeque window
    index,              \* the index of enumerate()
    position,           \* what get_start_of_packet_position returned
    packet_pc           \* "idle", "loop", "test" or "done"

\* day10, SimpleCpu and render_crt_output
VARIABLES
    simple_cpu,         \* the SimpleCpu: register_x, cycle, and the calls of
                        \* the interrupt its last operation made
    program,            \* the commands the SimpleCpu has run, in order
    calls,              \* every call of the interrupt so far: <<cycle, register_x>>
    crt_output,         \* the String crt_output of render_crt_output
    crt_pc              \* "idle", "loop" or "returned"

\* day09, the Rope
VARIABLES
    rope,               \* the Rope: knots, unique_tail_positions, and the
                        \* spreads <<index, x_spread, y_spread>> its last
                        \* update_knots found on the knots it moved
    reference,          \* the Rope under an update that examines every knot
    tail_history,       \* the positions the last knot has occupied
    rope_steps,         \* the head steps made
    rope_input          \* the directions the lines hold, and how many steps

\* day05, the CrateStacks
VARIABLES
    crate_stacks,       \* the HashMap crate_stacks: stack name to crates,
                        \* the top last
    instruction,        \* the move instruction carried out: op, n,
                        \* from_stack, to_stack
    crate_pc            \* "idle", "parsed", "moved" or "panicked"

tree_vars ==
    <<heap, current_directory, line, pc, max_size, sum_result, free_result, tree>>

packet_vars ==
    <<characters, window_size, window, index, position, packet_pc>>

cpu_vars == <<simple_cpu, program, calls, crt_output, crt_pc>>

rope_vars == <<rope, reference, tail_history, rope_steps, rope_input>>

crate_vars == <<crate_stacks, instruction, crate_pc>>

vars == <<tree_vars, packet_vars, cpu_vars, rope_vars, crate_vars>>

\* what the steps of one program leave alone: the state of the others
outside_tree == <<packet_vars, cpu_vars, rope_vars, crate_vars>>

outside_packet == <<tree_vars, cpu_vars, rope_vars, crate_vars>>

outside_cpu == <<tree_vars, packet_vars, rope_vars, crate_vars>>

outside_rope == <<tree_vars, packet_vars, cpu_vars, crate_vars>>

outside_crates == <<tree_vars, packet_vars, cpu_vars, rope_vars>>

\* no line read yet, no query answered yet
NoLine == <<"NoLine">>

NoResult == -2

\* the thresholds handed to sum_directory_sizes_of
Thresholds == {7, MaxSize100000, 40000000}

\* get_start_of_packet_position is not being called
PacketIdle ==
    /\ characters = <<>>
    /\ window_size = 0
    /\ window = <<>>
    /\ index = 0
    /\ position = NoResult
    /\ packet_pc = "idle"

\* SimpleCpu::from_interrupt
from_interrupt == [register_x |-> 1, cycle |-> 0, interrupts |-> <<>>]

\* no SimpleCpu is running
CpuIdle ==
    /\ simple_cpu = from_interrupt
    /\ program = <<>>
    /\ calls = <<>>
    /\ crt_output = <<>>
    /\ crt_pc = "idle"

\* Point::new
Point_new(x, y) == [x |-> x, y |-> y]

\* Rope::new: the knots, indexed from 0, all at the origin
Rope_new(knots) ==
    [knots |-> [i \in 0..(knots - 1) |-> Point_new(0, 0)],
     unique_tail_positions |-> {Point_new(0, 0)},
     spreads |-> <<>>]

\* no Rope is being moved: no line to read
RopeIdle ==
    /\ rope = Rope_new(1)
    /\ reference = Rope_new(1)
    /\ tail_history = {Point_new(0, 0)}
    /\ rope_steps = 0
    /\ rope_input = [directions |-> {}, steps |-> 0]

\* the names of the stacks, as new_crate_stacks reads them from ` 1   2   3`
ordered_stack_names == <<"1", "2", "3">>

NoInstruction == [op |-> "none", n |-> 0, from_stack |-> "", to_stack |-> ""]

\* no CrateStacks is in use
CratesIdle ==
    /\ crate_stacks = [name \in {"1", "2", "3"} |-> <<>>]
    /\ instruction = NoInstruction
    /\ crate_pc = "idle"

\* parse, before its loop: root_directory and the cursor on it
ParseStart ==
    /\ heap = [i \in Ids |-> IF i = root_directory THEN Directory_new(None)
                                                   ELSE Released]
    /\ current_directory = get_root_directory(root_directory)
    /\ line = NoLine
    /\ pc = "parsing"
    /\ max_size = NoResult
    /\ sum_result = NoResult
    /\ free_result = NoResult
    /\ tree = None

Init == ParseStart /\ PacketIdle /\ CpuIdle /\ RopeIdle /\ CratesIdle

\* parse, one iteration of `for line in lines`; a panic unwinds parse, which
\* drops root_directory and current_directory and with them every cell
ParseLine(l) ==
    /\ pc = "parsing"
    /\ Allocates(heap, current_directory, l) => FreeIds(heap) # {}
    /\ line' = l
    /\ LET r == parse_line(heap, current_directory, l)
       IN  IF r.panic
           THEN /\ pc' = "panicked"
                /\ current_directory' = None
                /\ heap' = Drop(heap, {})
           ELSE /\ pc' = "parsing"
                /\ current_directory' = r.current_directory
                /\ heap' = Drop(r.heap, {root_directory, r.current_directory})
    /\ UNCHANGED <<max_size, sum_result, free_result, tree>>
    /\ UNCHANGED outside_tree

\* parse returning the cursor in the place of root_directory
ParseReturnCursor ==
    /\ pc = "parsing"
    /\ current_directory # None
    /\ pc' = "returned"
    /\ tree' = current_directory
    /\ current_directory' = None
    /\ heap' = Drop(heap, {current_directory})
    /\ line' = NoLine
    /\ UNCHANGED <<max_size, sum_result, free_result>>
    /\ UNCHANGED outside_tree

\* parse, the end of the input: root_directory is returned; the cursor and the
\* loop variable go out of scope
ParseReturn ==
    /\ pc = "parsing"
    /\ pc' = "returned"
    /\ tree' = root_directory
    /\ current_directory' = None
    /\ heap' = Drop(heap, {root_directory})
    /\ line' = NoLine
    /\ UNCHANGED <<max_size, sum_result, free_result>>
    /\ UNCHANGED outside_tree

\* sum_directory_sizes_of(T, &tree) that stores the size it computed for the
\* tree in its cell
QuerySumCaching(T) ==
    /\ pc = "returned"
    /\ max_size' = T
    /\ sum_result' = sum_directory_sizes_of(T, heap, tree)
    /\ heap' = [heap EXCEPT ![tree].size = size(heap, tree)]
    /\ UNCHANGED <<current_directory, line, pc, free_result, tree>>
    /\ UNCHANGED outside_tree

\* sum_directory_sizes_of(T, &tree)
QuerySum(T) ==
    /\ pc = "returned"
    /\ max_size' = T
    /\ sum_result' = sum_directory_sizes_of(T, heap, tree)
    /\ UNCHANGED <<heap, current_directory, line, pc, free_result, tree>>
    /\ UNCHANGED outside_tree

\* directory_size_to_free_30_000_000, after its parse
QueryFree ==
    /\ pc = "returned"
    /\ free_result' = directory_size_to_free_30_000_000(heap, tree)
    /\ UNCHANGED <<heap, current_directory, line, pc, max_size, sum_result, tree>>
    /\ UNCHANGED outside_tree

Next ==
    \/ \E l \in Lines : ParseLine(l)
    \/ ParseReturn
    \/ \E T \in Thresholds : QuerySum(T)
    \/ QueryFree

Spec == Init /\ [][Next]_vars

TypeOK ==
    /\ pc \in {"parsing", "panicked", "returned"}
    /\ current_directory \in Ids \cup {None}
    /\ line \in Lines \cup {NoLine}
    /\ tree \in Ids \cup {None}

(***************************************************************************)
(* day06: get_start_of_packet_position(characters, window_size), one       *)
(* iteration of its loop in two steps: the window is filled and slid, then *)
(* it is tested.                                                           *)
(***************************************************************************)
\* the longest input, and the largest window_size
MaxChars == 4

MaxWindow == 3

Alphabet == {"a", "b", "c", "d"}

Inputs == UNION {[1..n -> Alphabet] : n \in 0..MaxChars}

\* HashSet::from_iter(window.iter())
hash_set(w) == {w[i] : i \in 1..Len(w)}

InitPacket ==
    /\ ParseStart
    /\ CpuIdle
    /\ RopeIdle
    /\ CratesIdle
    /\ characters \in Inputs
    /\ window_size \in 0..MaxWindow
    /\ window = <<>>
    /\ index = 0
    /\ position = NoResult
    /\ packet_pc = "loop"

\* push_back without the pop_front of a window that is too long
PushBackKeepingFront ==
    /\ packet_pc = "loop"
    /\ index < Len(characters)
    /\ LET pushed == Append(window, characters[index + 1])
       IN  IF Len(pushed) < window_size
           THEN /\ window' = pushed
                /\ index' = index + 1
                /\ packet_pc' = "loop"
           ELSE /\ window' = pushed
                /\ index' = index
                /\ packet_pc' = "test"
    /\ UNCHANGED <<characters, window_size, position>>
    /\ UNCHANGED outside_packet

\* the next (index, character): push_back, `continue` while the window is
\* short, pop_front when it is too long
PushBack ==
    /\ packet_pc = "loop"
    /\ index < Len(characters)
    /\ LET pushed == Append(window, characters[index + 1])
       IN  IF Len(pushed) < window_size
           THEN /\ window' = pushed
                /\ index' = index + 1
                /\ packet_pc' = "loop"
           ELSE /\ window' = IF Len(pushed) > window_size
                             THEN Tail(pushed)
                             ELSE pushed
                /\ index' = index
                /\ packet_pc' = "test"
    /\ UNCHANGED <<characters, window_size, position>>
    /\ UNCHANGED outside_packet

\* the test of the window: index + 1 is returned when its characters are
\* window_size different ones
TestWindow ==
    /\ packet_pc = "test"
    /\ IF Cardinality(hash_set(window)) = window_size
       THEN /\ position' = index + 1
            /\ packet_pc' = "done"
            /\ index' = index
       ELSE /\ position' = position
            /\ packet_pc' = "loop"
            /\ index' = index + 1
    /\ UNCHANGED <<characters, window_size, window>>
    /\ UNCHANGED outside_packet

\* the iterator is exhausted: -1
Exhausted ==
    /\ packet_pc = "loop"
    /\ index = Len(characters)
    /\ position' = -1
    /\ packet_pc' = "done"
    /\ UNCHANGED <<characters, window_size, window, index>>
    /\ UNCHANGED outside_packet

NextPacket ==
    \/ PushBack
    \/ TestWindow
    \/ Exhausted

SpecPacket == InitPacket /\ [][NextPacket]_vars

(***************************************************************************)
(* day10: the SimpleCpu. An operation returns the SimpleCpu with the calls *)
(* of the interrupt it made, <<cycle, register_x>> each, in order; the     *)
(* caller's closure is applied to them.                                    *)
(***************************************************************************)
\* the longest sequence of addx and noop calls
MaxCommands == 5

\* the operands of addx
Operands == {-2, 0, 5}

ADDX(n) == [op |-> "ADDX", n |-> n]

NOOP == [op |-> "NOOP", n |-> 0]

\* SimpleCpu::tick
tick(cpu) ==
    [cpu EXCEPT !.cycle = @ + 1,
                !.interrupts = Append(@, <<cpu.cycle + 1, cpu.register_x>>)]

\* addx that adds n between its two ticks
addx_between_ticks(cpu, n) ==
    LET first == tick([cpu EXCEPT !.interrupts = <<>>])
    IN  tick([first EXCEPT !.register_x = @ + n])

\* SimpleCpu::addx
addx(cpu, n) ==
    LET ticked == tick(tick([cpu EXCEPT !.interrupts = <<>>]))
    IN  [ticked EXCEPT !.register_x = @ + n]

\* SimpleCpu::noop
noop(cpu) == tick([cpu EXCEPT !.interrupts = <<>>])

\* SimpleCpu::get_cycle
get_cycle(cpu) == cpu.cycle

\* the match on a Command in the loops over the lines
run(cpu, command) ==
    IF command.op = "ADDX" THEN addx(cpu, command.n) ELSE noop(cpu)

\* simple_cpu.addx(n), the interrupts recorded
CpuAddx(n) ==
    /\ crt_pc = "idle"
    /\ Len(program) < MaxCommands
    /\ simple_cpu' = addx(simple_cpu, n)
    /\ program' = Append(program, ADDX(n))
    /\ calls' = calls \o simple_cpu'.interrupts
    /\ UNCHANGED <<crt_output, crt_pc>>
    /\ UNCHANGED outside_cpu

\* simple_cpu.noop(), the interrupts recorded
CpuNoop ==
    /\ crt_pc = "idle"
    /\ Len(program) < MaxCommands
    /\ simple_cpu' = noop(simple_cpu)
    /\ program' = Append(program, NOOP)
    /\ calls' = calls \o simple_cpu'.interrupts
    /\ UNCHANGED <<crt_output, crt_pc>>
    /\ UNCHANGED outside_cpu

InitCpu == ParseStart /\ PacketIdle /\ CpuIdle /\ RopeIdle /\ CratesIdle

NextCpu ==
    \/ \E n \in Operands : CpuAddx(n)
    \/ CpuNoop

SpecCpu == InitCpu /\ [][NextCpu]_vars

(***************************************************************************)
(* day10: render_crt_output, one line of the program per step.             *)
(***************************************************************************)
\* the cycle at which render_crt_output breaks, and the width of a row
CrtCycles == 240

CrtWidth == 40

\* no line is read at or after this cycle
MaxCycle == 244

\* operands other than 0 come in the lines read before this cycle
LastMoveCycle == 4

Commands == {NOOP} \cup {ADDX(n) : n \in Operands}

\* the interrupt of render_crt_output: a pixel, and a line feed after the
\* last pixel of a row
render(output, cycle, register_x) ==
    LET column == (cycle - 1) % CrtWidth
        pixel == IF register_x - 1 <= column /\ register_x + 1 >= column
                 THEN "#"
                 ELSE "."
    IN  IF column = 39
        THEN Append(Append(output, pixel), "\n")
        ELSE Append(output, pixel)

\* the interrupt on each of the calls an operation made
RECURSIVE RenderAll(_, _)
RenderAll(output, interrupts) ==
    IF interrupts = <<>> THEN output
    ELSE RenderAll(render(output, Head(interrupts)[1], Head(interrupts)[2]),
                   Tail(interrupts))

InitCrt ==
    /\ ParseStart
    /\ PacketIdle
    /\ RopeIdle
    /\ CratesIdle
    /\ simple_cpu = from_interrupt
    /\ program = <<>>
    /\ calls = <<>>
    /\ crt_output = <<>>
    /\ crt_pc = "loop"

\* one iteration of `for line in lines`: the command runs, and the loop breaks
\* when the cycle is 240
RenderLine(command) ==
    /\ crt_pc = "loop"
    /\ get_cycle(simple_cpu) < MaxCycle
    /\ command.n # 0 => get_cycle(simple_cpu) < LastMoveCycle
    /\ simple_cpu' = run(simple_cpu, command)
    /\ crt_output' = RenderAll(crt_output, simple_cpu'.interrupts)
    /\ crt_pc' = IF get_cycle(simple_cpu') = CrtCycles THEN "returned" ELSE "loop"
    /\ UNCHANGED <<program, calls>>
    /\ UNCHANGED outside_cpu

\* the lines are exhausted: crt_output is returned
RenderReturn ==
    /\ crt_pc = "loop"
    /\ crt_pc' = "returned"
    /\ UNCHANGED <<simple_cpu, program, calls, crt_output>>
    /\ UNCHANGED outside_cpu

NextCrt ==
    \/ \E command \in Commands : RenderLine(command)
    \/ RenderReturn

SpecCrt == InitCrt /\ [][NextCrt]_vars

(***************************************************************************)
(* day09: the Rope. The head makes one step, then update_knots lets the    *)
(* knots behind it follow.                                                 *)
(***************************************************************************)
\* the knots of the short ropes, and of the rope of the second part
MaxKnots == 3

LongRope == 10

\* the head steps of an input over all four directions, and of an input that
\* holds R and U lines only
MaxSteps == 6

MaxLongSteps == 11

KnotCounts == 1..MaxKnots \cup {LongRope}

RopeInputs ==
    {[directions |-> {"U", "D", "L", "R"}, steps |-> MaxSteps],
     [directions |-> {"R", "U"}, steps |-> MaxLongSteps]}

\* isize::abs and isize::signum
abs(n) == IF n < 0 THEN -n ELSE n

signum(n) == IF n > 0 THEN 1 ELSE IF n < 0 THEN -1 ELSE 0

\* update_knots that moves a knot when both spreads are above 1
RECURSIVE update_knots_both_spreads_from(_, _)
update_knots_both_spreads_from(r, next_knot_index) ==
    LET knots_len == Cardinality(DOMAIN r.knots)
    IN  IF next_knot_index >= knots_len THEN r
        ELSE
        LET previous_knot == r.knots[next_knot_index - 1]
            current_knot == r.knots[next_knot_index]
            x_spread == previous_knot.x - current_knot.x
            y_spread == previous_knot.y - current_knot.y
            moved == Point_new(current_knot.x + signum(x_spread),
                               current_knot.y + signum(y_spread))
        IN  IF abs(x_spread) > 1 /\ abs(y_spread) > 1
            THEN update_knots_both_spreads_from(
                [knots |-> [r.knots EXCEPT ![next_knot_index] = moved],
                 unique_tail_positions |->
                     IF next_knot_index + 1 = knots_len
                     THEN r.unique_tail_positions \cup {moved}
                     ELSE r.unique_tail_positions,
                 spreads |-> Append(r.spreads,
                                    <<next_knot_index, x_spread, y_spread>>)],
                next_knot_index + 1)
            ELSE r

update_knots_both_spreads(r) == update_knots_both_spreads_from([r EXCEPT !.spreads = <<>>], 1)

\* update_knots that moves a knot along x only
RECURSIVE update_knots_along_x_from(_, _)
update_knots_along_x_from(r, next_knot_index) ==
    LET knots_len == Cardinality(DOMAIN r.knots)
    IN  IF next_knot_index >= knots_len THEN r
        ELSE
        LET previous_knot == r.knots[next_knot_index - 1]
            current_knot == r.knots[next_knot_index]
            x_spread == previous_knot.x - current_knot.x
            y_spread == previous_knot.y - current_knot.y
            moved == Point_new(current_knot.x + signum(x_spread),
                               current_knot.y)
        IN  IF abs(x_spread) > 1 \/ abs(y_spread) > 1
            THEN update_knots_along_x_from(
                [knots |-> [r.knots EXCEPT ![next_knot_index] = moved],
                 unique_tail_positions |->
                     IF next_knot_index + 1 = knots_len
                     THEN r.unique_tail_positions \cup {moved}
                     ELSE r.unique_tail_positions,
                 spreads |-> Append(r.spreads,
                                    <<next_knot_index, x_spread, y_spread>>)],
                next_knot_index + 1)
            ELSE r

update_knots_along_x(r) == update_knots_along_x_from([r EXCEPT !.spreads = <<>>], 1)

\* update_knots that stops after the first knot it moved
update_knots_first_only_from(r, next_knot_index) ==
    LET knots_len == Cardinality(DOMAIN r.knots)
    IN  IF next_knot_index >= knots_len THEN r
        ELSE
        LET previous_knot == r.knots[next_knot_index - 1]
            current_knot == r.knots[next_knot_index]
            x_spread == previous_knot.x - current_knot.x
            y_spread == previous_knot.y - current_knot.y
            moved == Point_new(current_knot.x + signum(x_spread),
                               current_knot.y + signum(y_spread))
        IN  IF abs(x_spread) > 1 \/ abs(y_spread) > 1
            THEN [knots |-> [r.knots EXCEPT ![next_knot_index] = moved],
                 unique_tail_positions |->
                     IF next_knot_index + 1 = knots_len
                     THEN r.unique_tail_positions \cup {moved}
                     ELSE r.unique_tail_positions,
                 spreads |-> Append(r.spreads,
                                    <<next_knot_index, x_spread, y_spread>>)]
            ELSE r

update_knots_first_only(r) == update_knots_first_only_from([r EXCEPT !.spreads = <<>>], 1)

\* update_knots that stores the position of every knot it moved
RECURSIVE update_knots_storing_every_knot_from(_, _)
update_knots_storing_every_knot_from(r, next_knot_index) ==
    LET knots_len == Cardinality(DOMAIN r.knots)
    IN  IF next_knot_index >= knots_len THEN r
        ELSE
        LET previous_knot == r.knots[next_knot_index - 1]
            current_knot == r.knots[next_knot_index]
            x_spread == previous_knot.x - current_knot.x
            y_spread == previous_knot.y - current_knot.y
            moved == Point_new(current_knot.x + signum(x_spread),
                               current_knot.y + signum(y_spread))
        IN  IF abs(x_spread) > 1 \/ abs(y_spread) > 1
            THEN update_knots_storing_every_knot_from(
                [knots |-> [r.knots EXCEPT ![next_knot_index] = moved],
                 unique_tail_positions |->
                     IF TRUE
                     THEN r.unique_tail_positions \cup {moved}
                     ELSE r.unique_tail_positions,
                 spreads |-> Append(r.spreads,
                                    <<next_knot_index, x_spread, y_spread>>)],
                next_knot_index + 1)
            ELSE r

update_knots_storing_every_knot(r) == update_knots_storing_every_knot_from([r EXCEPT !.spreads = <<>>], 1)

\* Rope::update_knots: the loop from next_knot_index on; the knot follows its
\* predecessor when it is not adjacent, and the loop breaks at the first knot
\* that is
RECURSIVE update_knots_from(_, _)
update_knots_from(r, next_knot_index) ==
    LET knots_len == Cardinality(DOMAIN r.knots)
    IN  IF next_knot_index >= knots_len THEN r
        ELSE
        LET previous_knot == r.knots[next_knot_index - 1]
            current_knot == r.knots[next_knot_index]
            x_spread == previous_knot.x - current_knot.x
            y_spread == previous_knot.y - current_knot.y
            moved == Point_new(current_knot.x + signum(x_spread),
                               current_knot.y + signum(y_spread))
        IN  IF abs(x_spread) > 1 \/ abs(y_spread) > 1
            THEN update_knots_from(
                [knots |-> [r.knots EXCEPT ![next_knot_index] = moved],
                 unique_tail_positions |->
                     IF next_knot_index + 1 = knots_len
                     THEN r.unique_tail_positions \cup {moved}
                     ELSE r.unique_tail_positions,
                 spreads |-> Append(r.spreads,
                                    <<next_knot_index, x_spread, y_spread>>)],
                next_knot_index + 1)
            ELSE r

update_knots(r) == update_knots_from([r EXCEPT !.spreads = <<>>], 1)

\* Rope::up, down, left, right
up(r) == update_knots([r EXCEPT !.knots[0].y = @ + 1])

down(r) == update_knots([r EXCEPT !.knots[0].y = @ - 1])

left(r) == update_knots([r EXCEPT !.knots[0].x = @ - 1])

right(r) == update_knots([r EXCEPT !.knots[0].x = @ + 1])

\* Rope::get_unique_tail_positions_count
get_unique_tail_positions_count(r) == Cardinality(r.unique_tail_positions)

\* update_knots without its break: every knot is examined
RECURSIVE update_every_knot_from(_, _)
update_every_knot_from(r, next_knot_index) ==
    LET knots_len == Cardinality(DOMAIN r.knots)
    IN  IF next_knot_index >= knots_len THEN r
        ELSE
        LET previous_knot == r.knots[next_knot_index - 1]
            current_knot == r.knots[next_knot_index]
            x_spread == previous_knot.x - current_knot.x
            y_spread == previous_knot.y - current_knot.y
            moved == Point_new(current_knot.x + signum(x_spread),
                               current_knot.y + signum(y_spread))
        IN  IF abs(x_spread) > 1 \/ abs(y_spread) > 1
            THEN update_every_knot_from(
                [knots |-> [r.knots EXCEPT ![next_knot_index] = moved],
                 unique_tail_positions |->
                     IF next_knot_index + 1 = knots_len
                     THEN r.unique_tail_positions \cup {moved}
                     ELSE r.unique_tail_positions,
                 spreads |-> Append(r.spreads,
                                    <<next_knot_index, x_spread, y_spread>>)],
                next_knot_index + 1)
            ELSE update_every_knot_from(r, next_knot_index + 1)

update_every_knot(r) == update_every_knot_from([r EXCEPT !.spreads = <<>>], 1)

\* the match on a Command in count_unique_tail_positions, one step of its
\* `for _ in 0..n`
step(r, direction) ==
    IF direction = "U" THEN up(r)
    ELSE IF direction = "D" THEN down(r)
    ELSE IF direction = "L" THEN left(r)
    ELSE right(r)

\* the last knot of a rope
Tail_of(r) == r.knots[Cardinality(DOMAIN r.knots) - 1]

InitRope ==
    /\ ParseStart
    /\ PacketIdle
    /\ CpuIdle
    /\ CratesIdle
    /\ \E knots \in KnotCounts :
           /\ rope = Rope_new(knots)
           /\ reference = Rope_new(knots)
    /\ tail_history = {Point_new(0, 0)}
    /\ rope_steps = 0
    /\ rope_input \in RopeInputs

\* one head step of the rope, and the same step of the head followed by the
\* update that examines every knot
Step(direction) ==
    /\ rope_steps < rope_input.steps
    /\ direction \in rope_input.directions
    /\ rope' = step(rope, direction)
    /\ reference' = update_every_knot([reference EXCEPT !.knots[0] = rope'.knots[0]])
    /\ tail_history' = tail_history \cup {Tail_of(rope')}
    /\ rope_steps' = rope_steps + 1
    /\ UNCHANGED rope_input
    /\ UNCHANGED outside_rope

NextRope == \E direction \in {"U", "D", "L", "R"} : Step(direction)

SpecRope == InitRope /\ [][NextRope]_vars

(***************************************************************************)
(* day05: the CrateStacks. One move instruction is carried out on the      *)
(* stacks parse_crate_stacks built; every content of the stacks up to      *)
(* MaxHeight crates each is one it can have built. An operation returns    *)
(* the stacks and whether it panicked.                                     *)
(***************************************************************************)
\* the crates of a stack after parse_crate_stacks, and the n of an instruction
MaxHeight == 2

MaxMove == 3

Crates == {"a", "b"}

\* the stack names an instruction can hold: the stacks, and a name of none
StackNames == {ordered_stack_names[i] : i \in 1..Len(ordered_stack_names)}

Names == StackNames \cup {"9"}

Stacks == UNION {[1..n -> Crates] : n \in 0..MaxHeight}

\* Option::expect on None, and the unwinding that drops the CrateStacks
Panicked == [panic |-> TRUE, stacks |-> <<>>]

\* CrateStacks::move_from_to_stack
move_from_to_stack(stacks, from_stack, to_stack) ==
    IF from_stack \in DOMAIN stacks /\ stacks[from_stack] = <<>>
    THEN [panic |-> FALSE, stacks |-> stacks]
    ELSE LET known == from_stack \in DOMAIN stacks
             popped ==
                 IF known
                 THEN [stacks EXCEPT ![from_stack] = SubSeq(@, 1, Len(@) - 1)]
                 ELSE stacks
         IN  IF to_stack \in DOMAIN popped
             THEN IF known
                  THEN [panic |-> FALSE,
                        stacks |->
                            [popped EXCEPT ![to_stack] =
                                Append(@, stacks[from_stack][Len(stacks[from_stack])])]]
                  ELSE Panicked
             ELSE [panic |-> FALSE, stacks |-> popped]

\* CrateStacks::move_many_from_top: move_from_to_stack, n times
RECURSIVE move_many_from_top(_, _, _, _)
move_many_from_top(stacks, n, from_stack, to_stack) ==
    IF n = 0 THEN [panic |-> FALSE, stacks |-> stacks]
    ELSE LET moved == move_from_to_stack(stacks, from_stack, to_stack)
         IN  IF moved.panic THEN Panicked
             ELSE move_many_from_top(moved.stacks, n - 1, from_stack, to_stack)

\* CrateStacks::move_many_from_bottom: drain, then extend
move_many_from_bottom(stacks, n, from_stack, to_stack) ==
    LET known == from_stack \in DOMAIN stacks
        len == IF known THEN Len(stacks[from_stack]) ELSE 0
        m == IF len < n THEN len ELSE n
        crates_being_moved ==
            IF known THEN SubSeq(stacks[from_stack], len - m + 1, len) ELSE <<>>
        drained ==
            IF known
            THEN [stacks EXCEPT ![from_stack] = SubSeq(@, 1, len - m)]
            ELSE stacks
    IN  IF to_stack \in DOMAIN drained
        THEN IF known
             THEN [panic |-> FALSE,
                   stacks |-> [drained EXCEPT ![to_stack] = @ \o crates_being_moved]]
             ELSE Panicked
        ELSE [panic |-> FALSE, stacks |-> drained]

InitCrates ==
    /\ ParseStart
    /\ PacketIdle
    /\ CpuIdle
    /\ RopeIdle
    /\ crate_stacks \in [StackNames -> Stacks]
    /\ instruction = NoInstruction
    /\ crate_pc = "parsed"

\* parse_from_top_all_instructions_from_lines, one MoveInstruction
MoveManyFromTop(n, from_stack, to_stack) ==
    /\ crate_pc = "parsed"
    /\ instruction' = [op |-> "move_many_from_top", n |-> n,
                       from_stack |-> from_stack, to_stack |-> to_stack]
    /\ LET moved == move_many_from_top(crate_stacks, n, from_stack, to_stack)
       IN  /\ crate_stacks' = moved.stacks
           /\ crate_pc' = IF moved.panic THEN "panicked" ELSE "moved"
    /\ UNCHANGED outside_crates

\* parse_from_bottom_all_instructions_from_lines, one MoveInstruction
MoveManyFromBottom(n, from_stack, to_stack) ==
    /\ crate_pc = "parsed"
    /\ instruction' = [op |-> "move_many_from_bottom", n |-> n,
                       from_stack |-> from_stack, to_stack |-> to_stack]
    /\ LET moved == move_many_from_bottom(crate_stacks, n, from_stack, to_stack)
       IN  /\ crate_stacks' = moved.stacks
           /\ crate_pc' = IF moved.panic THEN "panicked" ELSE "moved"
    /\ UNCHANGED outside_crates

NextCrates ==
    \E n \in 0..MaxMove, from_stack \in Names, to_stack \in Names :
        \/ MoveManyFromTop(n, from_stack, to_stack)
        \/ MoveManyFromBottom(n, from_stack, to_stack)

SpecCrates == InitCrates /\ [][NextCrates]_vars

(***************************************************************************)
(* What the properties below speak about.                                  *)
(***************************************************************************)
\* the directories of the tree parse returned, the root included
DirectoriesOfTree ==
    {d \in Reachable(heap, {root_directory}, {}) : heap[d].kind = "Directory"}

\* the sum of size(d) over the directories d of S with size(d) <= T
RECURSIVE SumOfQualifying(_, _)
SumOfQualifying(S, T) ==
    IF S = {} THEN 0
    ELSE LET d == CHOOSE x \in S : TRUE
         IN  (IF size(heap, d) <= T THEN size(heap, d) ELSE 0)
                 + SumOfQualifying(S \ {d}, T)

\* deficit = 30,000,000 - (70,000,000 - size(root))
Deficit == RequiredFree - (Capacity - size(heap, root_directory))

\* the number of directories on the longest chain of nested directories from d
RECURSIVE Levels(_)
Levels(d) ==
    IF directories(heap, d) = {} THEN 1
    ELSE 1 + MaxOf({Levels(c) : c \in directories(heap, d)})

(***************************************************************************)
(* The properties.                                                         *)
(***************************************************************************)
\* C1: Query A returns the sum of size(d) over exactly the directories d of
\* the returned tree, the root included, whose size is <= T; a directory
\* nested in a qualifying directory is counted for itself and again inside
\* each qualifying ancestor.
QueryASumsQualifyingDirectories ==
    sum_result # NoResult =>
        sum_result = SumOfQualifying(DirectoriesOfTree, max_size)

\* Query A counted a directory that holds files and lies in a qualifying
\* directory twice
QueryANestedWitness ==
    /\ sum_result # NoResult
    /\ \E d \in DirectoriesOfTree : \E e \in directories(heap, d) :
           /\ size(heap, d) <= max_size
           /\ size(heap, e) > 0
           /\ sum_result >= size(heap, d) + size(heap, e)

\* C2: with deficit > 0, Query B returns a size >= deficit that is the least
\* size(d) >= deficit over all directories d of the tree, the root included.
QueryBReturnsLeastSufficientDirectory ==
    (free_result # NoResult /\ Deficit > 0) =>
        /\ free_result >= Deficit
        /\ \E d \in DirectoriesOfTree : size(heap, d) = free_result
        /\ \A d \in DirectoriesOfTree :
               size(heap, d) >= Deficit => free_result <= size(heap, d)

\* Query B returned a directory smaller than the root
QueryBProperDirectoryWitness ==
    /\ free_result # NoResult
    /\ Deficit > 0
    /\ free_result < size(heap, root_directory)

\* C3: with deficit <= 0, deficit = 0 included, Query B returns the sentinel
\* -1 and never a directory size.
QueryBSentinelWhenNothingToFree ==
    (free_result # NoResult /\ Deficit <= 0) => free_result = -1

\* C4 as claimed: Query A never exceeds the size of the root.
QueryANeverExceedsRootSize ==
    sum_result # NoResult => sum_result <= size(heap, root_directory)

\* C4 as amended: Query A never exceeds the size of the root times the number
\* of levels of nested directories of the tree.
QueryANeverExceedsRootSizePerLevel ==
    sum_result # NoResult =>
        sum_result <= Levels(root_directory) * size(heap, root_directory)

\* Query A returned more than the size of the root
QueryAExceedsRootWitness ==
    /\ sum_result # NoResult
    /\ sum_result > size(heap, root_directory)

\* C5: `$ cd <name>` onto a File aborts the build: the cursor is never moved
\* onto a File.
CursorIsNeverAFile ==
    current_directory # None => heap[current_directory].kind # "File"

\* the line is `$ cd <name>` with a name other than / and ..
IsCdName(l) ==
    /\ Len(Split(l)) = 3
    /\ Split(l)[1] = TokenDollar
    /\ Split(l)[2] = TokenCd
    /\ Split(l)[3] \notin {TokenRoot, TokenUp, <<>>}

\* the step is an iteration of the loop of parse, on line'
LoopStep == pc = "parsing" /\ pc' # "returned"

\* C6: `$ cd <name>` where the cursor has no child <name> aborts the build.
CdToMissingChildAborts ==
    [][(/\ LoopStep
        /\ IsCdName(line')
        /\ current_directory # None
        /\ get_child(heap, current_directory, Split(line')[3]) = None)
       => pc' = "panicked"]_vars

\* C7: `$ cd ..` aborts the build when the cursor is the root, and moves the
\* cursor of a non-root directory to the directory whose children hold it.
CdUpAbortsAtRootElseMovesToParent ==
    [][(LoopStep /\ line' = LineCdUp /\ current_directory # None)
       => /\ current_directory = root_directory => pc' = "panicked"
          /\ (/\ current_directory # root_directory
              /\ heap[current_directory].kind = "Directory")
             => /\ pc' = "parsing"
                /\ current_directory' # None
                /\ current_directory \in ChildItems(heap, current_directory')
                /\ heap' = heap]_vars

\* `$ cd ..` moved the cursor from a directory to its parent
CdUpMovedToParentWitness ==
    /\ pc = "parsing"
    /\ line = LineCdUp
    /\ current_directory # None
    /\ heap[current_directory].kind = "Directory"
    /\ directories(heap, current_directory) # {}

\* `$ cd ..` at the root aborted the build
CdUpAtRootAbortedWitness ==
    /\ pc = "panicked"
    /\ line = LineCdUp

\* the line is `dir <name>`
IsDirListing(l) ==
    /\ Len(Split(l)) = 2
    /\ Split(l)[1] = TokenDir
    /\ Split(l)[2] # <<>>

\* C8: `dir <name>` where the cursor already has a child Directory <name>
\* leaves that child and its subtree as they are: size(root) is unchanged.
RelistedDirectoryKeepsItsSubtree ==
    [][(/\ LoopStep
        /\ IsDirListing(line')
        /\ current_directory # None
        /\ get_child(heap, current_directory, Split(line')[2]) # None
        /\ heap[get_child(heap, current_directory, Split(line')[2])].kind
               = "Directory")
       => /\ pc' = "parsing"
          /\ size(heap', root_directory) = size(heap, root_directory)]_vars

\* C9: a child that is a File of size s stays a File of size s under its name
\* for as long as its directory lives.
FileSizeIsFixed ==
    [][\A d \in Ids :
           (heap[d].kind = "Directory" /\ heap'[d].kind = "Directory")
           => \A c \in heap[d].children :
                  heap[c.item].kind = "File"
                  => \E k \in heap'[d].children :
                         /\ k.name = c.name
                         /\ heap'[k.item].kind = "File"
                         /\ heap'[k.item].size = heap[c.item].size]_vars

\* a token is a non-negative integer: one or more decimal digits
IsNumber(tok) == Len(tok) > 0 /\ \A i \in 1..Len(tok) : IsDigit(tok[i])

\* the line has one of the shapes `$ cd /`, `$ cd ..`, `$ cd <name>`, `$ ls`,
\* `dir <name>`, `<non-negative integer> <name>`
WellFormed(l) ==
    LET tokens == Split(l)
    IN  \/ /\ Len(tokens) = 3
           /\ tokens[1] = TokenDollar
           /\ tokens[2] = TokenCd
           /\ tokens[3] # <<>>
        \/ tokens = <<TokenDollar, TokenLs>>
        \/ IsDirListing(l)
        \/ /\ Len(tokens) = 2
           /\ IsNumber(tokens[1])
           /\ tokens[2] # <<>>

\* C10: a line of none of the six shapes aborts the build.
MalformedLineAborts ==
    [][(LoopStep /\ ~WellFormed(line')) => pc' = "panicked"]_vars

\* the Files reachable from cell d
FilesUnder(d) == {f \in Reachable(heap, {d}, {}) : heap[f].kind = "File"}

\* the sum of the stored sizes of the Files of S
RECURSIVE SumOfStoredSizes(_)
SumOfStoredSizes(S) ==
    IF S = {} THEN 0
    ELSE LET f == CHOOSE x \in S : TRUE
         IN  heap[f].size + SumOfStoredSizes(S \ {f})

\* the cells of the tree under root_directory
CellsOfTree == Reachable(heap, {root_directory}, {})

\* C11: size() of a File is its stored size, and size() of every Directory of
\* the tree, the root included, is the sum of the stored sizes of all Files
\* reachable from it (0 for an empty directory).
SizeIsSumOfReachableFiles ==
    pc # "panicked" =>
        \A d \in CellsOfTree :
            /\ heap[d].kind = "File" => size(heap, d) = heap[d].size
            /\ heap[d].kind = "Directory"
                   => size(heap, d) = SumOfStoredSizes(FilesUnder(d))

\* the returned root holds a file itself and another one in a directory
SizeOfNestedFilesWitness ==
    /\ pc = "returned"
    /\ \E f \in ChildItems(heap, root_directory) : heap[f].kind = "File"
    /\ \E d \in directories(heap, root_directory) :
           /\ size(heap, d) > 0
           /\ size(heap, root_directory) > size(heap, d)

\* C12: every Directory of the tree is at least as large as each of its
\* direct children, File or Directory.
DirectoryAtLeastAsLargeAsEachChild ==
    pc # "panicked" =>
        \A d \in CellsOfTree :
            \A c \in ChildItems(heap, d) : size(heap, d) >= size(heap, c)

\* a chain root, directory, file with sizes that do not decrease upwards
MonotoneChainWitness ==
    /\ pc = "parsing"
    /\ \E d \in directories(heap, root_directory) :
           \E f \in ChildItems(heap, d) :
               /\ heap[f].kind = "File"
               /\ heap[f].size > 0
               /\ size(heap, d) >= heap[f].size
               /\ size(heap, root_directory) >= size(heap, d)

\* C13: while parse runs, the root is the one Directory of the tree without a
\* parent; every other Directory of the tree has a parent reference to the one
\* Directory whose children hold it; a cursor that is a Directory is a cell of
\* the tree.
TreeShape ==
    pc # "panicked" =>
        /\ heap[root_directory].kind = "Directory"
        /\ heap[root_directory].parent = None
        /\ \A d \in CellsOfTree \ {root_directory} :
               /\ \E p \in CellsOfTree : d \in ChildItems(heap, p)
               /\ \A p, q \in Ids :
                      (d \in ChildItems(heap, p) /\ d \in ChildItems(heap, q))
                      => p = q
               /\ heap[d].kind = "Directory"
                      => /\ heap[d].parent # None
                         /\ heap[heap[d].parent].kind = "Directory"
                         /\ d \in ChildItems(heap, heap[d].parent)
        /\ (current_directory # None
                /\ heap[current_directory].kind = "Directory")
               => current_directory \in CellsOfTree

\* the cursor is a directory below the root that holds a directory itself
NestedCursorWitness ==
    /\ pc = "parsing"
    /\ current_directory \in directories(heap, root_directory)
    /\ directories(heap, current_directory) # {}

IsFileListing(l) ==
    /\ Len(Split(l)) = 2
    /\ IsNumber(Split(l)[1])
    /\ Split(l)[2] # <<>>

\* C15: `$ cd /` sets the cursor to the root from every cursor position and
\* changes no cell of the tree; a listing line that follows it is added to the
\* children of the root.
CdRootResetsCursor ==
    [][/\ (LoopStep /\ line' = LineCdRoot)
          => /\ pc' = "parsing"
             /\ current_directory' = root_directory
             /\ \A i \in CellsOfTree : heap'[i] = heap[i]
       /\ (LoopStep /\ line = LineCdRoot /\ IsDirListing(line'))
          => /\ pc' = "parsing"
             /\ get_child(heap', root_directory, Split(line')[2]) # None
             /\ heap'[get_child(heap', root_directory, Split(line')[2])]
                    = Directory_new(root_directory)
       /\ (LoopStep /\ line = LineCdRoot /\ IsFileListing(line'))
          => /\ pc' = "parsing"
             /\ get_child(heap', root_directory, Split(line')[2]) # None
             /\ heap'[get_child(heap', root_directory, Split(line')[2])]
                    = File_new(ParseUsize(Split(line')[1]))]_vars

\* `$ cd /` has put the cursor on the root of a tree with a populated
\* directory
CdRootWitness ==
    /\ pc = "parsing"
    /\ line = LineCdRoot
    /\ current_directory = root_directory
    /\ \E d \in directories(heap, root_directory) : ChildItems(heap, d) # {}

\* C16: at the end of the input parse returns the root, a Directory without a
\* parent, whatever the cursor is, and the returned tree holds every cell that
\* was allocated when the input ended.
ParseReturnsRoot ==
    [][(pc = "parsing" /\ pc' = "returned")
       => /\ tree' = root_directory
          /\ heap'[tree'].kind = "Directory"
          /\ heap'[tree'].parent = None
          /\ heap' = heap
          /\ \A i \in Ids :
                 heap[i].kind # "Released"
                 => i \in Reachable(heap', {tree'}, {})]_vars

\* parse has returned a tree with a file in a directory in a directory
ReturnedDeepTreeWitness ==
    /\ pc = "returned"
    /\ tree = root_directory
    /\ \E d \in directories(heap, tree) : \E e \in directories(heap, d) :
           \E f \in ChildItems(heap, e) : heap[f].kind = "File"

\* C17: `$ ls` changes neither the cursor nor any cell.
LsChangesNothing ==
    [][(LoopStep /\ line' = LineLs)
       => /\ pc' = "parsing"
          /\ current_directory' = current_directory
          /\ heap' = heap]_vars

\* `$ ls` was read with the cursor in a directory below the root
LsBelowRootWitness ==
    /\ pc = "parsing"
    /\ line = LineLs
    /\ current_directory \in directories(heap, root_directory)

\* C19: the parent reference of a live Directory never designates a released
\* cell, so the upgrade in Directory::get_parent cannot fail when `$ cd ..`
\* is read with a Directory cursor, also after children have been replaced.
ParentIsNeverReleased ==
    pc = "parsing" =>
        /\ \A d \in Ids :
               (heap[d].kind = "Directory" /\ heap[d].parent # None)
               => heap[heap[d].parent].kind = "Directory"
        /\ (current_directory # None
                /\ heap[current_directory].kind = "Directory")
               => get_parent(heap, current_directory) # Panic

\* `$ cd ..` has moved the cursor up in a tree one child of which was
\* replaced: a released cell lies below a live one
CdUpAfterReplacementWitness ==
    /\ pc = "parsing"
    /\ line = LineCdUp
    /\ current_directory # None
    /\ heap[current_directory].kind = "Directory"
    /\ \E i, j \in Ids :
           /\ i < j
           /\ heap[i].kind = "Released"
           /\ heap[j].kind # "Released"

\* C20: in Query B the root always qualifies: with deficit > 0,
\* size(root) >= deficit, some directory qualifies, and the value returned is
\* a positive size; the value 0 of "nothing qualifies" is never returned.
QueryBRootAlwaysQualifies ==
    free_result # NoResult =>
        /\ free_result # 0
        /\ Deficit > 0
               => /\ size(heap, tree) >= Deficit
                  /\ \E d \in DirectoriesOfTree : size(heap, d) >= Deficit
                  /\ free_result > 0

\* Query B answered with deficit > 0 where the root is the one directory
\* that qualifies, and its size is the answer
QueryBRootIsTheAnswerWitness ==
    /\ free_result # NoResult
    /\ Deficit > 0
    /\ free_result = size(heap, tree)
    /\ \A d \in DirectoriesOfTree \ {tree} : size(heap, d) < Deficit

\* the 1-based positions p >= w of s such that the w characters ending at p
\* are pairwise distinct
StartPositions(s, w) ==
    {p \in 1..Len(s) :
        /\ p >= w
        /\ \A i, j \in (p - w + 1)..p : i # j => s[i] # s[j]}

\* C18: get_start_of_packet_position(chars, w) returns the smallest 1-based
\* position p >= w such that the w characters ending at p are pairwise
\* distinct, and -1 when there is none (inputs shorter than w included); the
\* window never holds more than w characters when it is tested.
PacketPositionIsFirstDistinctWindow ==
    /\ packet_pc = "done" =>
           position = IF StartPositions(characters, window_size) = {}
                      THEN -1
                      ELSE MinOf(StartPositions(characters, window_size))
    /\ packet_pc = "test" => Len(window) <= window_size

\* a position beyond window_size was returned for a window of two or more:
\* the window slid, and earlier windows held a repeated character
SlidWindowWitness ==
    /\ packet_pc = "done"
    /\ window_size >= 2
    /\ position > window_size

\* C21: no listing is silently dropped: a `dir <name>` or `<size> <name>` line
\* that parse reads without aborting leaves an entry <name> in the children of
\* the directory the cursor designates, and a `$ cd ..` that is accepted leaves
\* the cursor on a directory.
ListingIsNeverDropped ==
    [][/\ (/\ LoopStep
           /\ IsDirListing(line') \/ IsFileListing(line')
           /\ pc' = "parsing")
          => /\ current_directory # None
             /\ heap'[current_directory].kind = "Directory"
             /\ get_child(heap', current_directory, Split(line')[2]) # None
       /\ (LoopStep /\ line' = LineCdUp /\ pc' = "parsing")
          => /\ current_directory' # None
             /\ heap'[current_directory'].kind = "Directory"]_vars

RECURSIVE CyclesOf(_)
CyclesOf(p) ==
    IF p = <<>> THEN 0
    ELSE (IF Head(p).op = "ADDX" THEN 2 ELSE 1) + CyclesOf(Tail(p))

\* the sum of the operands of the addx commands of p
RECURSIVE OperandsOf(_)
OperandsOf(p) == IF p = <<>> THEN 0 ELSE Head(p).n + OperandsOf(Tail(p))

\* C24: after any sequence of noop and addx calls, cycle = noops + 2 * addxs;
\* the interrupt has been called exactly once for each cycle 1..cycle, in
\* increasing order; and the register passed for both cycles of an `addx n` is
\* the value before n is added: 1 plus the operands of the addx calls completed
\* earlier.
CpuTiming ==
    crt_pc = "idle" =>
        /\ get_cycle(simple_cpu) = CyclesOf(program)
        /\ Len(calls) = get_cycle(simple_cpu)
        /\ \A k \in 1..Len(calls) : calls[k][1] = k
        /\ \A j \in 1..Len(program) :
               program[j].op = "ADDX" =>
                   LET earlier == SubSeq(program, 1, j - 1)
                       before == 1 + OperandsOf(earlier)
                   IN  /\ calls[CyclesOf(earlier) + 1][2] = before
                       /\ calls[CyclesOf(earlier) + 2][2] = before
        /\ simple_cpu.register_x = 1 + OperandsOf(program)

\* a noop between two addx calls that change the register
AddxNoopAddxWitness ==
    /\ crt_pc = "idle"
    /\ \E i, j, k \in 1..Len(program) :
           /\ i < j
           /\ j < k
           /\ program[i].op = "ADDX" /\ program[i].n # 0
           /\ program[j].op = "NOOP"
           /\ program[k].op = "ADDX" /\ program[k].n # 0

\* the pixel characters of the output
Pixels(output) == SelectSeq(output, LAMBDA c : c \in {"#", "."})

\* the line feeds of the output
LineFeeds(output) == SelectSeq(output, LAMBDA c : c = "\n")

\* C23: render_crt_output uses only 240 cycles: for every program the loop
\* stops once 240 cycles have run, and the output holds at most 240 pixel
\* characters in at most 6 rows of 40.
RenderUsesOnly240Cycles ==
    crt_pc # "idle" =>
        /\ get_cycle(simple_cpu) <= CrtCycles
        /\ Len(Pixels(crt_output)) <= CrtCycles
        /\ Len(LineFeeds(crt_output)) <= 6
        /\ Len(crt_output) <= CrtCycles + 6

\* knot i is within distance 1 of knot i - 1 on both axes
Adjacent(r, i) ==
    /\ abs(r.knots[i - 1].x - r.knots[i].x) <= 1
    /\ abs(r.knots[i - 1].y - r.knots[i].y) <= 1

\* C25: for a Rope of any number of knots, after every completed head step
\* every knot i >= 1 is within distance 1 of knot i - 1 on both axes.
KnotsStayAdjacent ==
    \A i \in DOMAIN rope.knots : i >= 1 => Adjacent(rope, i)

\* every knot of a rope of three or more has left the origin, two of them
\* diagonally apart
WholeRopeMovedWitness ==
    /\ Cardinality(DOMAIN rope.knots) >= 3
    /\ \A i \in DOMAIN rope.knots : rope.knots[i] # Point_new(0, 0)
    /\ \E i \in DOMAIN rope.knots :
           /\ i >= 1
           /\ abs(rope.knots[i - 1].x - rope.knots[i].x) = 1
           /\ abs(rope.knots[i - 1].y - rope.knots[i].y) = 1

EarlyExitIsSound ==
    /\ rope.knots = reference.knots
    /\ rope.unique_tail_positions = reference.unique_tail_positions
    /\ rope.spreads = reference.spreads

\* the last update moved knot 1 and stopped before the last knot of a rope
\* whose last knot has moved earlier
StoppedEarlyWitness ==
    /\ Cardinality(DOMAIN rope.knots) >= 3
    /\ Len(rope.spreads) >= 1
    /\ Len(rope.spreads) < Cardinality(DOMAIN rope.knots) - 1
    /\ Tail_of(rope) # Point_new(0, 0)

\* C28: for a Rope of 2 or of 10 knots (of 2 or more here), after any
\* sequence of steps unique_tail_positions is the set of the positions the
\* last knot has occupied since creation, the origin included, and
\* get_unique_tail_positions_count returns its cardinality.
TailPositionsAreTracked ==
    Cardinality(DOMAIN rope.knots) >= 2 =>
        /\ rope.unique_tail_positions = tail_history
        /\ Point_new(0, 0) \in rope.unique_tail_positions
        /\ get_unique_tail_positions_count(rope) = Cardinality(tail_history)

\* the last knot of the rope of 10 has left the origin
LongRopeTailMovedWitness ==
    /\ Cardinality(DOMAIN rope.knots) = LongRope
    /\ get_unique_tail_positions_count(rope) >= 2

\* the sequence s, the last first
Reverse(s) == [i \in 1..Len(s) |-> s[Len(s) - i + 1]]

\* the k crates on the top of a stack, and the stack without them
TopCrates(stack, k) == SubSeq(stack, Len(stack) - k + 1, Len(stack))

WithoutTop(stack, k) == SubSeq(stack, 1, Len(stack) - k)

\* how many crates named c the stacks hold
RECURSIVE CountOver(_, _, _)
CountOver(stacks, names, c) ==
    IF names = <<>> THEN 0
    ELSE Cardinality({i \in 1..Len(stacks[Head(names)]) :
                         stacks[Head(names)][i] = c})
             + CountOver(stacks, Tail(names), c)

CountOf(stacks, c) == CountOver(stacks, ordered_stack_names, c)

\* min(n, len(from)), 0 for a name of no stack
MovedCount(stacks, n, from_stack) ==
    IF from_stack \notin DOMAIN stacks THEN 0
    ELSE Min2(n, Len(stacks[from_stack]))

\* C29: move_many_from_top(n, from, to) moves min(n, len(from)) crates one
\* at a time from the top of `from` to the top of `to`, where they arrive in
\* reversed order, leaves every other stack unchanged, and loses or duplicates
\* no crate: the multiset of the crates over all stacks is the same before and
\* after, for every pair of stack names passed.
MoveFromTopConservesCrates ==
    [][(/\ crate_pc = "parsed"
        /\ instruction'.op = "move_many_from_top"
        /\ crate_pc' = "moved")
       => LET from_stack == instruction'.from_stack
              to_stack == instruction'.to_stack
              k == MovedCount(crate_stacks, instruction'.n, from_stack)
          IN  /\ \A c \in Crates :
                     CountOf(crate_stacks', c) = CountOf(crate_stacks, c)
              /\ \A s \in StackNames \ {from_stack, to_stack} :
                     crate_stacks'[s] = crate_stacks[s]
              /\ from_stack = to_stack => crate_stacks' = crate_stacks
              /\ (/\ from_stack \in StackNames
                  /\ to_stack \in StackNames
                  /\ from_stack # to_stack)
                 => /\ crate_stacks'[from_stack]
                           = WithoutTop(crate_stacks[from_stack], k)
                    /\ crate_stacks'[to_stack]
                           = crate_stacks[to_stack]
                                 \o Reverse(TopCrates(crate_stacks[from_stack], k))
      ]_vars

\* C30: move_many_from_bottom(n, from, to) moves the top min(n, len(from))
\* crates of `from` onto `to` as one block in their order, so that none of them
\* is lost, does nothing when `from` has no crates, and its result differs
\* from that of move_many_from_top(n, from, to) on the same state only in the
\* order of the moved block on `to`.
MoveFromBottomKeepsBlockOrder ==
    [][(crate_pc = "parsed" /\ instruction'.op = "move_many_from_bottom")
       => LET from_stack == instruction'.from_stack
              to_stack == instruction'.to_stack
              k == MovedCount(crate_stacks, instruction'.n, from_stack)
              top == move_many_from_top(crate_stacks, instruction'.n,
                                        from_stack, to_stack)
          IN  /\ (crate_pc' = "panicked") = top.panic
              /\ crate_pc' = "moved"
                 => /\ \A c \in Crates :
                           CountOf(crate_stacks', c) = CountOf(crate_stacks, c)
                    /\ (from_stack \in StackNames
                            /\ crate_stacks[from_stack] = <<>>)
                       => crate_stacks' = crate_stacks
                    /\ \A s \in StackNames \ {to_stack} :
                           crate_stacks'[s] = top.stacks[s]
                    /\ (/\ from_stack \in StackNames
                        /\ to_stack \in StackNames
                        /\ from_stack # to_stack)
                       => /\ crate_stacks'[to_stack]
                                 = crate_stacks[to_stack]
                                       \o TopCrates(crate_stacks[from_stack], k)
                          /\ top.stacks[to_stack]
                                 = crate_stacks[to_stack]
                                       \o Reverse(TopCrates(crate_stacks[from_stack], k))
                    /\ from_stack = to_stack
                       => crate_stacks' = top.stacks
      ]_vars

====
